---------------------------- MODULE Spec2Model ----------------------------
(* A model of prism-samplernn's generation driver (generate.py) and dataset  *)
(* pipeline (dataset.py).                                                    *)
(*                                                                           *)
(* Python floats are modelled as exact rationals <<numerator, denominator>>  *)
(* in lowest terms with a positive denominator; int() and round() are the    *)
(* Python builtins (truncation toward zero, round-half-to-even).             *)
EXTENDS Integers, Sequences, FiniteSets

VARIABLES
    \* generate(): generate.py 138-188
    pc,            \* position in generate(): start, stepping, finalize, done, error
    args,          \* the arguments of generate()
    model,         \* the attributes generate() reads from the inference model
    parsed_temps,  \* parse_temperature's result (generate.py 156)
    temperature,   \* the get_temperature generator (generate.py 157)
    samples,       \* the list of frames, samples[1] the initial frame (146-154)
    i,             \* the loop variable of the stepping loop (160)
    written,       \* the files write_wav wrote, in order (186)
    advances,      \* the number of frame-advance calls made on the model (164)
    exhausted,     \* the StopIteration handler of the stepping loop ran (171)
    \* a consumer draining get_temperature
    yielded,       \* the vectors a get_temperature generator has yielded
    \* interpolgen: generate.py 104-117
    gen,           \* one interpolgen generator
    emitted,       \* the (x, y) pairs it has yielded
    \* dataset.py: get_dataset_filenames_split
    spc,           \* position: start, split, error
    sargs,         \* the files found and the validation fraction
    split,         \* the two lists returned
    \* dataset.py: get_dataset
    dpc,           \* position: start, batch, window, padfail, end
    dargs,         \* the arguments of get_dataset and the corpus
    taken,         \* elements of the repeated stream already batched
    raw,           \* the batch the batching stage delivered last
    batch,         \* that batch after pad_batch
    wi,            \* get_subseq's loop variable i
    windows        \* the (x, y) pairs yielded for the current batch

vars == <<pc, args, model, parsed_temps, temperature, samples, i, written,
          advances, exhausted, yielded, gen, emitted, spc, sargs, split,
          dpc, dargs, taken, raw, batch, wi, windows>>

genVars == <<pc, args, model, parsed_temps, temperature, samples, i, written,
             advances, exhausted>>
interpVars == <<gen, emitted>>
splitVars == <<spc, sargs, split>>
dataVars == <<dpc, dargs, taken, raw, batch, wi, windows>>
notGenVars == <<yielded, interpVars, splitVars, dataVars>>
notParseVars == <<model, temperature, samples, i, written, advances, exhausted,
                  yielded, interpVars, splitVars, dataVars>>
notTempVars == <<pc, args, model, parsed_temps, samples, i, written, advances,
                 exhausted, interpVars, splitVars, dataVars>>
notInterpVars == <<genVars, yielded, splitVars, dataVars>>
notSplitVars == <<genVars, yielded, interpVars, dataVars>>
notDataVars == <<genVars, yielded, interpVars, splitVars>>

-----------------------------------------------------------------------------
(* Bounds of the model.                                                      *)
MaxSeqs == 2
MaxDur == 2
MaxRate == 4
MaxBfs == 2
MaxTemps == 2
MaxN == 4
MaxX == 4
MaxFiles == 3
MaxSplitFiles == 4
MaxEpochs == 2
MaxBatch == 2
MaxSeqLen == 2
MaxOverlap == 2
MaxLen == 5

(* Program constants.                                                        *)
Q_LEVELS == 256

-----------------------------------------------------------------------------
(* Arithmetic on floats, as exact rationals.                                 *)

Abs(a) == IF a < 0 THEN -a ELSE a

RECURSIVE GCD(_, _)
GCD(a, b) == IF b = 0 THEN a ELSE GCD(b, a % b)

RNorm(n, d) ==
    LET s == IF d < 0 THEN -1 ELSE 1
        g == GCD(Abs(n), Abs(d))
    IN  <<(s * n) \div g, (s * d) \div g>>

R(n) == <<n, 1>>
RAdd(a, b) == RNorm(a[1] * b[2] + b[1] * a[2], a[2] * b[2])
RSub(a, b) == RNorm(a[1] * b[2] - b[1] * a[2], a[2] * b[2])
RMul(a, b) == RNorm(a[1] * b[1], a[2] * b[2])
\* the caller raises ZeroDivisionError before dividing by zero
RDiv(a, b) == RNorm(a[1] * b[2], a[2] * b[1])
RLt(a, b) == a[1] * b[2] < b[1] * a[2]
RLe(a, b) == a[1] * b[2] <= b[1] * a[2]
RIsZero(a) == a[1] = 0

\* floor (Integers' \div rounds toward minus infinity)
RFloor(a) == a[1] \div a[2]

\* Python int(): truncation toward zero
IntOf(a) == IF a[1] >= 0 THEN a[1] \div a[2] ELSE -((-a[1]) \div a[2])

\* Python round(): to the nearest integer, a tie to the even one
Round(a) ==
    LET f == RFloor(a)
        r == a[1] - f * a[2]
    IN  IF 2 * r < a[2] THEN f
        ELSE IF 2 * r > a[2] THEN f + 1
        ELSE IF f % 2 = 0 THEN f ELSE f + 1

\* list.sort() on integers
RECURSIVE Insert(_, _)
Insert(v, s) ==
    IF s = <<>> THEN <<v>>
    ELSE IF v <= Head(s) THEN <<v>> \o s
    ELSE <<Head(s)>> \o Insert(v, Tail(s))

RECURSIVE Sort(_)
Sort(s) == IF s = <<>> THEN <<>> ELSE Insert(Head(s), Sort(Tail(s)))

Min(a, b) == IF a < b THEN a ELSE b
Max(a, b) == IF a > b THEN a ELSE b

-----------------------------------------------------------------------------
(* Temperature specifications (generate.py 84-102).                          *)

\* what ast.literal_eval returns for one --temperature string: a number, a
\* pair [fractions, y values], or an exception for a malformed string
Num(r) == [kind |-> "num", val |-> r, xfrac |-> <<>>, xpoints |-> <<>>, ypoints |-> <<>>]
Curve(xf, ys) == [kind |-> "curve", val |-> R(0), xfrac |-> xf, xpoints |-> <<>>, ypoints |-> ys]
Malformed == [kind |-> "bad", val |-> R(0), xfrac |-> <<>>, xpoints |-> <<>>, ypoints |-> <<>>]

\* generate.py 84-88 without line 87
ParseTemperatureVectorUnsorted(tvect, total_samps) ==
    [k \in 1..Len(tvect) |-> IntOf(RMul(tvect[k], R(total_samps)))]
ParseTemperatureVector(tvect, total_samps) ==
    Sort([k \in 1..Len(tvect) |-> IntOf(RMul(tvect[k], R(total_samps)))])

\* generate.py 92-94: a number is kept, a pair becomes [parsed x points, y values]
ParseOne(t, total_samps) ==
    IF t.kind = "num" THEN t
    ELSE [t EXCEPT !.xfrac = <<>>,
                   !.xpoints = ParseTemperatureVector(t.xfrac, total_samps)]

RECURSIVE Replicate(_, _)
Replicate(temps, num_seqs) ==
    IF Len(temps) < num_seqs
    THEN Replicate(temps \o <<temps[Len(temps)]>>, num_seqs)
    ELSE temps

ParseTemperature(temps, num_seqs, total_samps) ==
    LET parsed == [k \in 1..Len(temps) |-> ParseOne(temps[k], total_samps)]
    IN  IF num_seqs > 1
        THEN IF Len(parsed) < num_seqs THEN Replicate(parsed, num_seqs)
             ELSE IF Len(parsed) > num_seqs THEN SubSeq(parsed, 1, num_seqs)
             ELSE parsed
        ELSE parsed

\* ast.literal_eval raises on a malformed string (generate.py 91)
LiteralEvalFails(temps) == \E k \in 1..Len(temps) : temps[k].kind = "bad"

-----------------------------------------------------------------------------
(* interpolgen (generate.py 104-117), as a generator object.                 *)
(* st: "new" before the first next(), "run" inside the inner for loop,       *)
(* "done" once the generator has returned, "raised" once an exception left   *)
(* it.  seg is the index of the current (xi, xj, yi, yj) pair, left the      *)
(* iterations the inner range still has to make.                             *)

Interpolgen(nsamps, xpoints, ypoints) ==
    [st |-> "new", nsamps |-> nsamps, xpoints |-> xpoints, ypoints |-> ypoints,
     seg |-> 0, left |-> 0, dx |-> R(0), dy |-> R(0), cx |-> R(0), cy |-> R(0)]

\* zip(xpoints, xpoints[1:], ypoints, ypoints[1:]) stops at the shortest
NumPairs(g) == Max(0, Min(Len(g.xpoints), Len(g.ypoints)) - 1)

Finished(g) == [g EXCEPT !.st = "done", !.left = 0]
Raised(g) == [g EXCEPT !.st = "raised", !.left = 0]

\* generate.py 117 without lines 115-116
StepPointNoAdd(g) ==
    [g |-> [g EXCEPT !.left = g.left - 1], res |-> "yield", val |-> <<g.cx, g.cy>>]
\* generate.py 115-117: one iteration of the inner loop
StepPoint(g) ==
    LET cx == RAdd(g.cx, g.dx)
        cy == RAdd(g.cy, g.dy)
    IN  [g |-> [g EXCEPT !.cx = cx, !.cy = cy, !.left = g.left - 1],
         res |-> "yield", val |-> <<cx, cy>>]

\* generate.py 107-114: enter pair number s (and the following ones while the
\* inner range is empty); division by a zero float raises ZeroDivisionError
RECURSIVE EnterPair(_, _)
EnterPair(g, s) ==
    IF s > NumPairs(g)
    THEN [g |-> Finished(g), res |-> "stop", val |-> <<R(0), R(0)>>]
    ELSE LET xi == g.xpoints[s]
             xj == g.xpoints[s + 1]
             yi == g.ypoints[s]
             yj == g.ypoints[s + 1]
             xdiff == R(xj - xi)
             ydiff == RSub(yj, yi)
         IN  IF RIsZero(g.dx) \/ RIsZero(RDiv(xdiff, g.dx))
             THEN [g |-> Raised(g), res |-> "error", val |-> <<R(0), R(0)>>]
             ELSE LET xn == RDiv(xdiff, g.dx)
                      dy == RDiv(ydiff, xn)
                      n == Round(xn)
                      h == [g EXCEPT !.st = "run", !.seg = s, !.dy = dy,
                                     !.cx = RSub(R(xi), g.dx),
                                     !.cy = RSub(yi, dy),
                                     !.left = Max(n, 0)]
                  IN  IF n > 0 THEN StepPoint(h) ELSE EnterPair(h, s + 1)

\* next() on the generator
InterpolNext(g) ==
    IF g.st \in {"done", "raised"}
    THEN [g |-> g, res |-> "stop", val |-> <<R(0), R(0)>>]
    ELSE IF g.st = "new"
    THEN IF g.nsamps = 0
         THEN [g |-> Raised(g), res |-> "error", val |-> <<R(0), R(0)>>]
         ELSE EnterPair([g EXCEPT !.dx = RNorm(g.xpoints[Len(g.xpoints)], g.nsamps)], 1)
    ELSE IF g.left > 0 THEN StepPoint(g)
    ELSE EnterPair(g, g.seg + 1)

-----------------------------------------------------------------------------
(* get_temperature (generate.py 119-136), as a generator object.             *)
(* temps holds, per sequence, the number or that sequence's own interpolgen; *)
(* n counts the iterations of the for loop already made.                     *)

GetTemperature(parsed_temp, nsamps) ==
    [st |-> "run", nsamps |-> nsamps, n |-> 0,
     temps |-> [k \in 1..Len(parsed_temp) |->
                  IF parsed_temp[k].kind = "num"
                  THEN [kind |-> "num", val |-> parsed_temp[k].val,
                        it |-> Interpolgen(0, <<>>, <<>>)]
                  ELSE [kind |-> "curve", val |-> R(0),
                        it |-> Interpolgen(nsamps, parsed_temp[k].xpoints,
                                           parsed_temp[k].ypoints)]]]

\* generate.py 131-133: the list comprehension, left to right; it stops at
\* the first generator that raises.  acc: [temps, out, res]
RECURSIVE BuildVector(_, _)
BuildVector(acc, k) ==
    IF k > Len(acc.temps) \/ acc.res # "yield" THEN acc
    ELSE LET t == acc.temps[k]
         IN  IF t.kind = "num"
             THEN BuildVector([acc EXCEPT !.out = Append(acc.out, t.val)], k + 1)
             ELSE LET r == InterpolNext(t.it)
                  IN  BuildVector(
                        [temps |-> [acc.temps EXCEPT ![k].it = r.g],
                         out |-> IF r.res = "yield" THEN Append(acc.out, r.val[2])
                                 ELSE acc.out,
                         res |-> r.res], k + 1)

\* the same with the loop of line 123 running once more
TemperatureNextOneMore(t) ==
    IF t.st # "run"
    THEN [t |-> t, res |-> "stop", val |-> <<>>]
    ELSE IF t.n > t.nsamps
    THEN [t |-> [t EXCEPT !.st = "done"], res |-> "stop", val |-> <<>>]
    ELSE LET acc == BuildVector([temps |-> t.temps, out |-> <<>>, res |-> "yield"], 1)
         IN  IF acc.res = "yield"
             THEN [t |-> [t EXCEPT !.temps = acc.temps, !.n = t.n + 1],
                   res |-> "yield", val |-> acc.out]
             ELSE [t |-> [t EXCEPT !.temps = acc.temps,
                                   !.st = IF acc.res = "stop" THEN "done" ELSE "raised"],
                   res |-> acc.res, val |-> <<>>]

\* next() on the generator: a vector, StopIteration ("stop") after the loop
\* ends or a curve is exhausted (135-136), or the curve's uncaught exception
TemperatureNext(t) ==
    IF t.st # "run"
    THEN [t |-> t, res |-> "stop", val |-> <<>>]
    ELSE IF t.n >= t.nsamps
    THEN [t |-> [t EXCEPT !.st = "done"], res |-> "stop", val |-> <<>>]
    ELSE LET acc == BuildVector([temps |-> t.temps, out |-> <<>>, res |-> "yield"], 1)
         IN  IF acc.res = "yield"
             THEN [t |-> [t EXCEPT !.temps = acc.temps, !.n = t.n + 1],
                   res |-> "yield", val |-> acc.out]
             ELSE [t |-> [t EXCEPT !.temps = acc.temps,
                                   !.st = IF acc.res = "stop" THEN "done" ELSE "raised"],
                   res |-> acc.res, val |-> <<>>]

-----------------------------------------------------------------------------
(* Collaborators outside src/: the codec and the model's frame advance.      *)

\* quantize, linear: a sample in [-1, 1] to a code in 0..Q_LEVELS-1
Quantize(x) == IntOf(RMul(RDiv(RAdd(x, R(1)), R(2)), R(Q_LEVELS - 1)))

\* dequantize, linear: the code's amplitude in [-1, 1]
Dequantize(seq) ==
    [k \in 1..Len(seq) |-> RSub(RNorm(2 * seq[k], Q_LEVELS - 1), R(1))]

\* the model's frame advance: big_frame_size new samples per sequence; the
\* stub emits the code (step + 1) % Q_LEVELS everywhere
ModelAdvance(m, step) ==
    [b \in 1..m.batch_size |-> [k \in 1..m.big_frame_size |-> (step + 1) % Q_LEVELS]]

-----------------------------------------------------------------------------
(* generate (generate.py 138-188).                                           *)

\* Python s[n:]
Drop(s, n) == SubSeq(s, n + 1, Len(s))

\* str.split(sep)[0]: what precedes the first occurrence of the separator
RECURSIVE SplitFirst(_, _)
SplitFirst(p, sep) ==
    IF p = <<>> \/ Head(p) = sep THEN <<>>
    ELSE <<Head(p)>> \o SplitFirst(Tail(p), sep)

\* str.split(sep)[-1]: what follows the last occurrence of the separator
RECURSIVE SplitLast(_, _)
SplitLast(p, sep) ==
    IF \E k \in 1..Len(p) : p[k] = sep
    THEN SplitLast(Tail(p), sep)
    ELSE p

NumSamps(a) == a.dur * a.sample_rate
NumFrames(a, m) == NumSamps(a) \div m.big_frame_size
QZero == Q_LEVELS \div 2

\* load_seed_audio's assertion (generate.py 78)
SeedTooShort(a, m) ==
    a.seed.given /\ a.seed_offset + m.big_frame_size > Len(a.seed.audio)

\* generate.py 147-153
InitSamples(a, m) ==
    [b \in 1..m.batch_size |->
        IF a.seed.given
        THEN [k \in 1..m.big_frame_size |-> Quantize(a.seed.audio[a.seed_offset + k])]
        ELSE [k \in 1..m.big_frame_size |-> QZero]]

\* tf.concat(samples, axis=1), for sequence b
RECURSIVE ConcatFrames(_, _)
ConcatFrames(frames, b) ==
    IF frames = <<>> THEN <<>>
    ELSE Head(frames)[b] \o ConcatFrames(Tail(frames), b)

\* generate.py 173-174 and 182: the samples of sequence b handed to dequantize
OutputSeq(frames, b, bfs) == Drop(Drop(ConcatFrames(frames, b), bfs), bfs)

\* generate.py 178-180: the value printed after "_t=": the number itself,
\* or t[1], the list of y values
TemperatureLabel(t) ==
    IF t.kind = "num" THEN [scalar |-> TRUE, vals |-> <<t.val>>]
    ELSE [scalar |-> FALSE, vals |-> t.ypoints]

\* generate.py 184 without its condition on batch_size
FileNameAlwaysIndexed(a, m, temps, k) ==
    [stem |-> SplitFirst(a.path, ".wav"),
     epoch |-> SplitLast(a.ckpt_path, "/model.ckpt-"),
     index |-> <<k>>,
     t |-> TemperatureLabel(temps[k + 1])]
\* generate.py 176-177, 184-185: {stem}_e={epoch}[({i})]_t={label}.wav
FileName(a, m, temps, k) ==
    [stem |-> SplitFirst(a.path, ".wav"),
     epoch |-> SplitLast(a.ckpt_path, "/model.ckpt-"),
     index |-> IF m.batch_size > 1 THEN <<k>> ELSE <<>>,
     t |-> TemperatureLabel(temps[k + 1])]

\* generate.py 140-159, up to the loop
Setup ==
    /\ pc = "start"
    /\ ~SeedTooShort(args, model)
    /\ ~LiteralEvalFails(args.temperature)
    /\ samples' = <<InitSamples(args, model)>>
    /\ parsed_temps' = ParseTemperature(args.temperature, args.num_seqs, NumSamps(args))
    /\ temperature' = GetTemperature(parsed_temps', NumFrames(args, model))
    /\ i' = 0
    /\ pc' = "stepping"
    /\ UNCHANGED <<args, model, written, advances, exhausted>>
    /\ UNCHANGED notGenVars

\* the seed assertion (78) or ast.literal_eval (91) raises
SetupFails ==
    /\ pc = "start"
    /\ SeedTooShort(args, model) \/ LiteralEvalFails(args.temperature)
    /\ pc' = "error"
    /\ UNCHANGED <<args, model, parsed_temps, temperature, samples, i, written,
                   advances, exhausted>>
    /\ UNCHANGED notGenVars

\* generate.py 164-165 with the model advanced twice for one vector
StepAdvanceTwice ==
    /\ pc = "stepping"
    /\ i < NumFrames(args, model)
    /\ LET r == TemperatureNext(temperature)
       IN  /\ r.res = "yield"
           /\ temperature' = r.t
           /\ samples' = samples \o <<ModelAdvance(model, i), ModelAdvance(model, i)>>
           /\ advances' = advances + 2
    /\ i' = i + 1
    /\ UNCHANGED <<pc, args, model, parsed_temps, written, exhausted>>
    /\ UNCHANGED notGenVars
\* one iteration of the loop at 160-170: a vector is pulled, the model advances
StepAdvance ==
    /\ pc = "stepping"
    /\ i < NumFrames(args, model)
    /\ LET r == TemperatureNext(temperature)
       IN  /\ r.res = "yield"
           /\ temperature' = r.t
           /\ samples' = Append(samples, ModelAdvance(model, i))
           /\ advances' = advances + 1
    /\ i' = i + 1
    /\ UNCHANGED <<pc, args, model, parsed_temps, written, exhausted>>
    /\ UNCHANGED notGenVars

\* next(temperature) raises StopIteration: 171-172
StepExhausted ==
    /\ pc = "stepping"
    /\ i < NumFrames(args, model)
    /\ LET r == TemperatureNext(temperature)
       IN  /\ r.res = "stop"
           /\ temperature' = r.t
    /\ exhausted' = TRUE
    /\ pc' = "finalize"
    /\ UNCHANGED <<args, model, parsed_temps, samples, i, written, advances>>
    /\ UNCHANGED notGenVars

\* next(temperature) raises ZeroDivisionError, which nothing catches
StepRaises ==
    /\ pc = "stepping"
    /\ i < NumFrames(args, model)
    /\ LET r == TemperatureNext(temperature)
       IN  /\ r.res = "error"
           /\ temperature' = r.t
    /\ pc' = "error"
    /\ UNCHANGED <<args, model, parsed_temps, samples, i, written, advances, exhausted>>
    /\ UNCHANGED notGenVars

\* range(0, num_frames) is used up
LoopExit ==
    /\ pc = "stepping"
    /\ i >= NumFrames(args, model)
    /\ pc' = "finalize"
    /\ UNCHANGED <<args, model, parsed_temps, temperature, samples, i, written,
                   advances, exhausted>>
    /\ UNCHANGED notGenVars

\* generate.py 173-188
Finalize ==
    /\ pc = "finalize"
    /\ written' = [k \in 1..model.batch_size |->
                     [name |-> FileName(args, model, parsed_temps, k - 1),
                      audio |-> Dequantize(OutputSeq(samples, k, model.big_frame_size))]]
    /\ pc' = "done"
    /\ UNCHANGED <<args, model, parsed_temps, temperature, samples, i, advances, exhausted>>
    /\ UNCHANGED notGenVars

-----------------------------------------------------------------------------
(* Inputs.                                                                   *)

Half == <<1, 2>>
CurveVee == Curve(<<R(0), Half, R(1)>>, <<R(1), Half, R(1)>>)
CurveRise == Curve(<<R(0), R(1)>>, <<Half, R(1)>>)
CurveLate == Curve(<<R(0), <<1, 4>>, R(1)>>, <<R(1), R(2), Half>>)

\* the --temperature lists generate() is run with
GenTemperatures ==
    { <<Num(<<19, 20>>)>>,
      <<Num(R(1)), Num(Half)>>,
      <<CurveVee>>,
      <<CurveRise, Num(<<19, 20>>)>>,
      <<Num(Half), CurveLate>>,
      <<Num(R(1)), Num(Half), CurveVee>>,
      <<Malformed>> }

NoSeed == [given |-> FALSE, audio |-> <<>>]
SeedAudio == [given |-> TRUE, audio |-> <<R(0), Half>>]

GenArgs ==
    [path : {<<"out", ".wav">>, <<"out">>},
     ckpt_path : {<<"logdir", "/model.ckpt-", "12">>},
     num_seqs : 1..MaxSeqs,
     dur : 1..MaxDur,
     sample_rate : 1..MaxRate,
     temperature : GenTemperatures,
     seed : {NoSeed, SeedAudio},
     seed_offset : 0..1]

GenIdle ==
    /\ pc = "idle"
    /\ args = <<>>
    /\ model = <<>>
    /\ parsed_temps = <<>>
    /\ temperature = <<>>
    /\ samples = <<>>
    /\ i = 0
    /\ written = <<>>
    /\ advances = 0
    /\ exhausted = FALSE

InterpIdle == gen = <<>> /\ emitted = <<>>
SplitIdle == spc = "idle" /\ sargs = <<>> /\ split = <<>>
DataIdle ==
    /\ dpc = "idle"
    /\ dargs = <<>>
    /\ taken = 0
    /\ raw = <<>>
    /\ batch = <<>>
    /\ wi = 0
    /\ windows = <<>>

-----------------------------------------------------------------------------
(* Spec: one call of generate().                                             *)

Init ==
    /\ pc = "start"
    /\ args \in {a \in GenArgs : a.seed.given \/ a.seed_offset = 0}
    /\ model \in [big_frame_size : 1..MaxBfs, batch_size : {args.num_seqs}]
    /\ parsed_temps = <<>>
    /\ temperature = <<>>
    /\ samples = <<>>
    /\ i = 0
    /\ written = <<>>
    /\ advances = 0
    /\ exhausted = FALSE
    /\ yielded = <<>>
    /\ InterpIdle /\ SplitIdle /\ DataIdle

Next ==
    \/ Setup
    \/ SetupFails
    \/ StepAdvance
    \/ StepExhausted
    \/ StepRaises
    \/ LoopExit
    \/ Finalize

Spec == Init /\ [][Next]_vars

-----------------------------------------------------------------------------
(* SpecParse: parse_temperature applied to bounded inputs.                   *)

SeqsUpTo(S, n) == UNION {[1..k -> S] : k \in 0..n}

Fractions == {R(0), Half, <<2, 3>>, R(1)}

ParsePool ==
    {Num(<<19, 20>>), Num(Half), Malformed, CurveVee, CurveLate,
     Curve(<<R(1), R(0), Half>>, <<R(1), Half, R(2)>>)}
    \cup {Curve(xf, <<R(1), Half>>) : xf \in [1..2 -> Fractions]}

ParseLists ==
    {<<h>> \o t : h \in ParsePool, t \in SeqsUpTo({Num(Half), CurveRise}, MaxTemps - 1)}

InitParse ==
    /\ pc = "start"
    /\ args \in [temperature : ParseLists,
                 num_seqs : 1..MaxSeqs,
                 total_samps : 1..(MaxDur * MaxRate)]
    /\ parsed_temps = <<>>
    /\ model = <<>> /\ temperature = <<>> /\ samples = <<>> /\ i = 0
    /\ written = <<>> /\ advances = 0 /\ exhausted = FALSE /\ yielded = <<>>
    /\ InterpIdle /\ SplitIdle /\ DataIdle

ParseCall ==
    /\ pc = "start"
    /\ ~LiteralEvalFails(args.temperature)
    /\ parsed_temps' = ParseTemperature(args.temperature, args.num_seqs, args.total_samps)
    /\ pc' = "parsed"
    /\ UNCHANGED args
    /\ UNCHANGED notParseVars

ParseRaises ==
    /\ pc = "start"
    /\ LiteralEvalFails(args.temperature)
    /\ pc' = "error"
    /\ UNCHANGED <<args, parsed_temps>>
    /\ UNCHANGED notParseVars

NextParse == ParseCall \/ ParseRaises

SpecParse == InitParse /\ [][NextParse]_vars

-----------------------------------------------------------------------------
(* SpecTemp: a consumer that drains get_temperature.                         *)

TempPool == {Num(<<19, 20>>), CurveVee, CurveLate}

InitTemp ==
    /\ pc = "drain"
    /\ args \in [temperature : SeqsUpTo(TempPool, MaxTemps) \ {<<>>},
                 num_seqs : 1..MaxSeqs,
                 total_samps : 1..(MaxDur * MaxRate),
                 big_frame_size : 1..MaxBfs]
    /\ parsed_temps = ParseTemperature(args.temperature, args.num_seqs, args.total_samps)
    /\ temperature = GetTemperature(parsed_temps, args.total_samps \div args.big_frame_size)
    /\ yielded = <<>>
    /\ model = <<>> /\ samples = <<>> /\ i = 0
    /\ written = <<>> /\ advances = 0 /\ exhausted = FALSE
    /\ InterpIdle /\ SplitIdle /\ DataIdle

PullYield ==
    /\ temperature.st = "run"
    /\ LET r == TemperatureNext(temperature)
       IN  /\ r.res = "yield"
           /\ temperature' = r.t
           /\ yielded' = Append(yielded, r.val)
    /\ UNCHANGED notTempVars

PullStop ==
    /\ temperature.st = "run"
    /\ LET r == TemperatureNext(temperature)
       IN  /\ r.res = "stop"
           /\ temperature' = r.t
    /\ UNCHANGED yielded
    /\ UNCHANGED notTempVars

PullRaises ==
    /\ temperature.st = "run"
    /\ LET r == TemperatureNext(temperature)
       IN  /\ r.res = "error"
           /\ temperature' = r.t
    /\ UNCHANGED yielded
    /\ UNCHANGED notTempVars

NextTemp == PullYield \/ PullStop \/ PullRaises

SpecTemp == InitTemp /\ [][NextTemp]_vars

-----------------------------------------------------------------------------
(* SpecInterp: a consumer that drains one interpolgen.                       *)

IsSorted(s) == \A a, b \in 1..Len(s) : a < b => s[a] <= s[b]
XPointSeqs == {xs \in [1..2 -> 0..MaxX] \cup [1..3 -> 0..MaxX] : IsSorted(xs)}
YValues == {Half, R(1), R(2)}

ExampleInterp == Interpolgen(100, <<0, 50, 100>>, <<R(1), Half, R(1)>>)

InitInterp ==
    /\ gen \in {Interpolgen(n, xs, ys) :
                  n \in 0..MaxN, xs \in XPointSeqs, ys \in [1..2 -> YValues] \cup [1..3 -> YValues]}
               \cup {ExampleInterp}
    /\ Len(gen.xpoints) = Len(gen.ypoints)
    /\ emitted = <<>>
    /\ yielded = <<>>
    /\ GenIdle /\ SplitIdle /\ DataIdle

InterpYield ==
    /\ gen.st \in {"new", "run"}
    /\ LET r == InterpolNext(gen)
       IN  /\ r.res = "yield"
           /\ gen' = r.g
           /\ emitted' = Append(emitted, r.val)
    /\ UNCHANGED notInterpVars

InterpStop ==
    /\ gen.st \in {"new", "run"}
    /\ LET r == InterpolNext(gen)
       IN  /\ r.res = "stop"
           /\ gen' = r.g
    /\ UNCHANGED emitted
    /\ UNCHANGED notInterpVars

InterpRaises ==
    /\ gen.st \in {"new", "run"}
    /\ LET r == InterpolNext(gen)
       IN  /\ r.res = "error"
           /\ gen' = r.g
    /\ UNCHANGED emitted
    /\ UNCHANGED notInterpVars

NextInterp == InterpYield \/ InterpStop \/ InterpRaises

SpecInterp == InitInterp /\ [][NextInterp]_vars

-----------------------------------------------------------------------------
(* C6: the closed form of interpolgen's output.                              *)

\* control points as the claim takes them: strictly increasing from 0
WellFormed(g) ==
    /\ g.nsamps >= 1
    /\ Len(g.xpoints) >= 2
    /\ g.xpoints[1] = 0
    /\ \A a \in 1..(Len(g.xpoints) - 1) : g.xpoints[a] < g.xpoints[a + 1]

SegDx(g) == RNorm(g.xpoints[Len(g.xpoints)], g.nsamps)
SegXn(g, s) == RDiv(R(g.xpoints[s + 1] - g.xpoints[s]), SegDx(g))
SegCount(g, s) == Max(0, Round(SegXn(g, s)))
SegDy(g, s) == RDiv(RSub(g.ypoints[s + 1], g.ypoints[s]), SegXn(g, s))
\* the k-th y value of segment s (k from 0) is yi + k * dy
SegYs(g, s) ==
    [k \in 1..SegCount(g, s) |-> RAdd(g.ypoints[s], RMul(R(k - 1), SegDy(g, s)))]

RECURSIVE ExpectedYFrom(_, _)
ExpectedYFrom(g, s) ==
    IF s > NumPairs(g) THEN <<>> ELSE SegYs(g, s) \o ExpectedYFrom(g, s + 1)

\* the segment each expected point belongs to
RECURSIVE ExpectedSegFrom(_, _)
ExpectedSegFrom(g, s) ==
    IF s > NumPairs(g) THEN <<>>
    ELSE [k \in 1..SegCount(g, s) |-> s] \o ExpectedSegFrom(g, s + 1)

EmittedY == [k \in 1..Len(emitted) |-> emitted[k][2]]

IsPrefix(a, b) == Len(a) <= Len(b) /\ SubSeq(b, 1, Len(a)) = a

MonotoneInSegments ==
    LET seg == ExpectedSegFrom(gen, 1)
    IN  \A p \in 1..(Len(emitted) - 1) :
          seg[p] = seg[p + 1] =>
            IF RLe(gen.ypoints[seg[p]], gen.ypoints[seg[p] + 1])
            THEN RLe(emitted[p][2], emitted[p + 1][2])
            ELSE RLe(emitted[p + 1][2], emitted[p][2])

ClosedForm ==
    WellFormed(gen) =>
      /\ gen.st # "raised"
      /\ IsPrefix(EmittedY, ExpectedYFrom(gen, 1))
      /\ gen.st = "done" => EmittedY = ExpectedYFrom(gen, 1)
      /\ MonotoneInSegments

\* interpolgen(100, [0, 50, 100], [1.0, 0.5, 1.0])
ExampleStream ==
    (gen.nsamps = 100 /\ gen.st = "done") =>
      /\ Len(emitted) = 100
      /\ emitted[1][2] = R(1)
      /\ emitted[51][2] = Half
      /\ \A p \in 1..50 : RLt(emitted[p + 1][2], emitted[p][2])
      /\ \A p \in 51..99 : RLt(emitted[p][2], emitted[p + 1][2])
      /\ emitted[100][2] = <<99, 100>>

\* C6 (as amended): for strictly increasing control points starting at 0,
\* interpolgen emits, segment by segment, round((xj - xi) / dx) points whose
\* k-th y value is yi + k * dy; the values are monotone within a segment; the
\* first value emitted is ypoints[0] whenever the first segment emits a point;
\* and the 100-frame example yields 100 values falling from 1.0 to 0.5 at the
\* midpoint and rising to 0.99.
C6_ClosedForm ==
    /\ ClosedForm
    /\ (WellFormed(gen) /\ SegCount(gen, 1) >= 1 /\ Len(emitted) >= 1)
          => emitted[1][2] = gen.ypoints[1]
    /\ ExampleStream

\* C6 witness: the 100-frame example has been drained.
C6_Witness == gen.nsamps = 100 /\ gen.st = "done" /\ Len(emitted) = 100

\* C6 (as stated): the same, with "the first emitted value is ypoints[0]"
\* for every strictly increasing list of control points starting at 0.
C6_Original ==
    /\ ClosedForm
    /\ (WellFormed(gen) /\ Len(emitted) >= 1) => emitted[1][2] = gen.ypoints[1]
    /\ ExampleStream

-----------------------------------------------------------------------------
(* C3, C8: parse_temperature.                                                *)

\* entry k of the resized list the claim describes: the given specs in
\* order, then copies of the last one
ResizedEntry(k) ==
    ParseOne(args.temperature[Min(k, Len(args.temperature))], args.total_samps)

\* C3 (as stated): parse_temperature returns exactly num_seqs entries for
\* every num_seqs >= 1: the first min(k, num_seqs) given specs in order, then
\* copies of the last given spec.
C3_Resize ==
    pc = "parsed" =>
      /\ Len(parsed_temps) = args.num_seqs
      /\ \A k \in 1..Len(parsed_temps) : parsed_temps[k] = ResizedEntry(k)

\* C3, the part the code keeps: the same for num_seqs >= 2.
C3_ResizeFromTwo ==
    (pc = "parsed" /\ args.num_seqs >= 2) =>
      /\ Len(parsed_temps) = args.num_seqs
      /\ \A k \in 1..Len(parsed_temps) : parsed_temps[k] = ResizedEntry(k)

\* v is f * total cut to an integer toward zero (f >= 0)
IsTruncation(f, total, v) ==
    v * f[2] <= f[1] * total /\ f[1] * total < (v + 1) * f[2]

\* v is an integer nearest to f * total
IsNearest(f, total, v) == 2 * Abs(f[1] * total - v * f[2]) <= f[2]

\* xs holds, in some order, one converted value per fraction
ConvertedBy(Conv(_, _, _), xf, xs, total) ==
    /\ Len(xs) = Len(xf)
    /\ \E p \in [1..Len(xf) -> 1..Len(xf)] :
         /\ \A a, b \in 1..Len(xf) : a # b => p[a] # p[b]
         /\ \A a \in 1..Len(xf) : Conv(xf[a], total, xs[p[a]])

CurveParsedBy(Conv(_, _, _)) ==
    pc = "parsed" =>
      \A k \in 1..Min(Len(parsed_temps), Len(args.temperature)) :
        args.temperature[k].kind = "curve" =>
          /\ parsed_temps[k].kind = "curve"
          /\ IsSorted(parsed_temps[k].xpoints)
          /\ ConvertedBy(Conv, args.temperature[k].xfrac, parsed_temps[k].xpoints,
                         args.total_samps)
          /\ parsed_temps[k].ypoints = args.temperature[k].ypoints

\* C8 (as amended): a curve's fractional x points f become int(f *
\* total_samps), the product cut toward zero, and are returned sorted
\* ascending; the y values are left unchanged.
C8_Truncates == CurveParsedBy(IsTruncation)

\* C8 witness: an unsorted curve whose products are not whole was parsed.
C8_Witness ==
    /\ pc = "parsed"
    /\ args.total_samps = 3
    /\ args.temperature[1].xfrac = <<R(1), R(0), Half>>
    /\ parsed_temps[1].xpoints = <<0, 1, 3>>

\* C8 (as stated): the x points become round(f * total_samps), the nearest
\* integer, sorted ascending, the y values unchanged.
C8_Rounds == CurveParsedBy(IsNearest)

-----------------------------------------------------------------------------
(* C1, C2, C7: generate().                                                   *)

\* all generated frames of sequence b, in order, without the initial frame
GeneratedSamples(b) == ConcatFrames(Tail(samples), b)

\* C1 (as stated): when the temperature stream is not exhausted early, every
\* file written holds num_frames * big_frame_size samples: every generated
\* frame, and only the initial frame dropped.
C1_OutputLength ==
    (pc = "done" /\ ~exhausted) =>
      \A k \in 1..Len(written) :
        /\ Len(written[k].audio) = NumFrames(args, model) * model.big_frame_size
        /\ written[k].audio = Dequantize(GeneratedSamples(k))

\* what the code writes instead: the first generated frame is dropped too
C1_OutputLengthOfCode ==
    (pc = "done" /\ ~exhausted) =>
      \A k \in 1..Len(written) :
        Len(written[k].audio)
          = Max(0, NumFrames(args, model) - 1) * model.big_frame_size

InLoop == pc \in {"stepping", "finalize", "done"}

StepLoopInv ==
    /\ advances <= (IF pc = "start" THEN 0 ELSE NumFrames(args, model))
    /\ InLoop =>
         /\ advances = i
         /\ advances = temperature.n
         /\ Len(samples) = 1 + i
         /\ samples[1] = InitSamples(args, model)
         /\ \A k \in 1..i : samples[k + 1] = ModelAdvance(model, k - 1)
    /\ exhausted =>
         /\ pc \in {"finalize", "done"}
         /\ i < NumFrames(args, model)
    /\ (pc \in {"finalize", "done"} /\ ~exhausted) => i = NumFrames(args, model)
    /\ pc = "done" => Len(written) = model.batch_size

\* C2: the stepping loop visits the frame indices in order and makes exactly
\* one model advance per temperature vector pulled, never more than
\* num_frames; when the temperature stream is exhausted at step i <
\* num_frames no further advance is made, no error is raised, the accumulator
\* is the initial frame followed by the i frames made so far, and the run
\* goes on from FINALIZE to DONE.
C2_StepLoop ==
    /\ []StepLoopInv
    /\ [][(pc = "stepping" /\ pc' # "stepping") => pc' \in {"finalize", "error"}]_vars
    /\ [][exhausted' => pc' \in {"finalize", "done"}]_vars
    /\ [][pc = "finalize" => pc' = "done"]_vars

\* C2 witness: the stream ran out after at least one frame and before
\* num_frames, and the run finished.
C2_Witness == pc = "done" /\ exhausted /\ i >= 1 /\ Len(samples) = 1 + i

\* the spec given for sequence k (from 1), after the broadcast
SpecOf(k) == args.temperature[Min(k, Len(args.temperature))]

NamesAre(Label(_)) ==
    pc = "done" =>
      /\ Len(written) = args.num_seqs
      /\ \A k \in 1..Len(written) :
           /\ written[k].name.stem = <<"out">>
           /\ written[k].name.epoch = <<"12">>
           /\ written[k].name.index = (IF args.num_seqs > 1 THEN <<k - 1>> ELSE <<>>)
           /\ written[k].name.t = Label(SpecOf(k))

WholeCurveLabel(t) ==
    IF t.kind = "num" THEN [scalar |-> TRUE, vals |-> <<t.val>>]
    ELSE [scalar |-> FALSE, vals |-> t.ypoints]

FinalPointLabel(t) ==
    IF t.kind = "num" THEN [scalar |-> TRUE, vals |-> <<t.val>>]
    ELSE [scalar |-> TRUE, vals |-> <<t.ypoints[Len(t.ypoints)]>>]

\* C7 (as amended): one file per sequence, named
\* {basePath}_e={epoch}[({seqIndex})]_t={label}.wav, the index present only
\* when num_seqs > 1; the label is the spec itself for a scalar and the whole
\* list of y values for a curve.
C7_FileNames == NamesAre(WholeCurveLabel)

\* C7 witness: several sequences were written and one of them has a curve.
C7_Witness ==
    /\ pc = "done"
    /\ Len(written) > 1
    /\ \E k \in 1..Len(written) :
         ~written[k].name.t.scalar /\ Len(written[k].name.t.vals) = 3

\* C7 (as stated): the label of a curve is its final control point's y
\* value, a single number.
C7_FinalPoint == NamesAre(FinalPointLabel)

-----------------------------------------------------------------------------
(* C4: get_temperature.                                                      *)

\* the y values a fresh interpolgen yields until it returns or raises
RECURSIVE DrainYs(_)
DrainYs(g) ==
    LET r == InterpolNext(g)
    IN  IF r.res = "yield" THEN <<r.val[2]>> \o DrainYs(r.g) ELSE <<>>

RECURSIVE DrainRaises(_)
DrainRaises(g) ==
    LET r == InterpolNext(g)
    IN  IF r.res = "yield" THEN DrainRaises(r.g) ELSE r.res = "error"

OwnCurve(k) ==
    Interpolgen(temperature.nsamps, parsed_temps[k].xpoints, parsed_temps[k].ypoints)

CurveIndices == {k \in 1..Len(parsed_temps) : parsed_temps[k].kind = "curve"}

\* min(num_frames, the fewest points any curve emits)
ExpectedVectors ==
    LET lens == {Len(DrainYs(OwnCurve(k))) : k \in CurveIndices} \cup {temperature.nsamps}
    IN  CHOOSE n \in lens : \A m \in lens : n <= m

\* C4: get_temperature yields min(num_frames, the fewest points any curve's
\* interpolation emits) vectors, num_frames of them when every spec is a
\* constant; the k-th vector holds a constant spec's scalar and the k-th
\* value of each curve's own interpolation; once a curve is exhausted no
\* further vector is yielded and no error escapes.
C4_FrameTemperatures ==
    /\ Len(yielded) <= ExpectedVectors
    /\ temperature.st = "done" => Len(yielded) = ExpectedVectors
    /\ \A j \in 1..Len(yielded) :
         /\ Len(yielded[j]) = Len(parsed_temps)
         /\ \A k \in 1..Len(parsed_temps) :
              yielded[j][k] = IF parsed_temps[k].kind = "num" THEN parsed_temps[k].val
                              ELSE DrainYs(OwnCurve(k))[j]
    /\ temperature.st = "raised" => \E k \in CurveIndices : DrainRaises(OwnCurve(k))
    /\ (CurveIndices = {} /\ temperature.st = "done") => Len(yielded) = temperature.nsamps

\* C4 witness: a replicated curve ran out after one vector or more and
\* before num_frames, and the stream ended without an error.
C4_Witness ==
    /\ temperature.st = "done"
    /\ Len(yielded) >= 1
    /\ Len(yielded) < temperature.nsamps
    /\ Len(args.temperature) = 1
    /\ Len(parsed_temps) = 2
    /\ CurveIndices = {1, 2}

-----------------------------------------------------------------------------
(* get_dataset_filenames_split (dataset.py 29-35).                           *)

\* dataset.py 34 with val_pcnt in place of 1 - val_pcnt
ValStartOfVal(files, val_pcnt) == IntOf(RMul(val_pcnt, R(Len(files))))
\* dataset.py 34: int((1 - val_pcnt) * len(files))
ValStart(files, val_pcnt) == IntOf(RMul(RSub(R(1), val_pcnt), R(Len(files))))

Shuffles(n) == {p \in [1..n -> 1..n] : \A a, b \in 1..n : a # b => p[a] # p[b]}

ValFractions == {R(0), <<1, 4>>, <<1, 3>>, Half, <<9, 10>>, R(1)}

InitSplit ==
    /\ spc = "start"
    /\ sargs \in [files : {[k \in 1..n |-> k] : n \in 0..MaxSplitFiles},
                  val_pcnt : ValFractions]
    /\ split = [shuffled |-> FALSE, files |-> sargs.files, returned |-> FALSE,
                train |-> <<>>, val |-> <<>>]
    /\ yielded = <<>>
    /\ GenIdle /\ InterpIdle /\ DataIdle

\* dataset.py 33-35: random.shuffle, then the two slices
SplitReturns ==
    /\ spc = "start"
    /\ sargs.files # <<>>
    /\ \E p \in Shuffles(Len(sargs.files)) :
         LET files == [k \in 1..Len(sargs.files) |-> sargs.files[p[k]]]
             val_start == ValStart(files, sargs.val_pcnt)
         IN  split' = [shuffled |-> TRUE, files |-> files, returned |-> TRUE,
                       train |-> SubSeq(files, 1, val_start),
                       val |-> Drop(files, val_start)]
    /\ spc' = "split"
    /\ UNCHANGED sargs
    /\ UNCHANGED notSplitVars

\* dataset.py 31-32: ValueError when no file was found
SplitRaises ==
    /\ spc = "start"
    /\ sargs.files = <<>>
    /\ spc' = "error"
    /\ UNCHANGED <<sargs, split>>
    /\ UNCHANGED notSplitVars

NextSplit == SplitReturns \/ SplitRaises

SpecSplit == InitSplit /\ [][NextSplit]_vars

Range(f) == {f[k] : k \in 1..Len(f)}

\* C9: with N >= 1 files and a validation fraction f in [0, 1] the split
\* returns the first floor((1 - f) * N) files of the shuffled list as train
\* and the rest as validation: the lengths add up to N, no file is in both
\* and every file found is in exactly one; with N = 0 it raises before it
\* shuffles and returns no lists.
C9_Split ==
    /\ spc = "split" =>
         LET N == Len(sargs.files)
             f == sargs.val_pcnt
             t == Len(split.train)
         IN  /\ N >= 1 /\ split.returned /\ split.shuffled
             /\ Range(split.files) = Range(sargs.files) /\ Len(split.files) = N
             /\ t * f[2] <= (f[2] - f[1]) * N
             /\ (f[2] - f[1]) * N < (t + 1) * f[2]
             /\ split.train \o split.val = split.files
             /\ Len(split.train) + Len(split.val) = N
             /\ Range(split.train) \cap Range(split.val) = {}
             /\ Range(split.train) \cup Range(split.val) = Range(sargs.files)
             /\ Cardinality(Range(split.train)) = Len(split.train)
             /\ Cardinality(Range(split.val)) = Len(split.val)
    /\ spc = "error" =>
         /\ sargs.files = <<>>
         /\ ~split.shuffled /\ ~split.returned
         /\ split.train = <<>> /\ split.val = <<>>
    /\ (spc = "start" /\ sargs.files = <<>>) => ~ENABLED SplitReturns

\* C9 witness: three files or more were shuffled out of their order and split
\* into two non-empty lists with a fraction that needs rounding down.
C9_Witness ==
    /\ spc = "split"
    /\ Len(sargs.files) >= 3
    /\ split.files # sargs.files
    /\ sargs.val_pcnt = <<1, 3>>
    /\ Len(split.train) >= 1
    /\ Len(split.val) >= 1
    /\ Len(split.val) < Len(split.train)

-----------------------------------------------------------------------------
(* get_dataset (dataset.py 37-65).                                           *)

\* load_audio: the decoded buffer of file f, len samples in [-1, 1]
LoadAudio(f, len) == [p \in 1..len |-> R(((f + p) % 3) - 1)]

\* element t (from 0) of the stream repeated for num_epochs (dataset.py 56)
StreamLen(a) == a.num_files * a.num_epochs
StreamElement(a, t) == LoadAudio((t % a.num_files) + 1, a.len)

\* dataset.py 38: the largest multiple of seq_len within the first buffer
PadNumSamps(b, seq_len) == (Len(b[1]) \div seq_len) * seq_len

\* dataset.py 39-40: tf.concat needs as many rows of zeros as of samples
PadBatchFails(b, batch_size) == Len(b) # batch_size

\* dataset.py 40 without the cut to num_samps
PadBatchNoTruncate(b, batch_size, seq_len, overlap) ==
    [r \in 1..Len(b) |-> [k \in 1..overlap |-> R(0)] \o b[r]]
\* dataset.py 37-40
PadBatch(b, batch_size, seq_len, overlap) ==
    [r \in 1..Len(b) |-> [k \in 1..overlap |-> R(0)]
                          \o SubSeq(b[r], 1, PadNumSamps(b, seq_len))]

\* Python s[lo:hi] with 0 <= lo
Slice(s, lo, hi) == SubSeq(s, lo + 1, Min(hi, Len(s)))

QuantizeAll(s) == [k \in 1..Len(s) |-> Quantize(s[k])]

\* dataset.py 46-47
SubseqAt(b, at, seq_len, overlap) ==
    LET x == [r \in 1..Len(b) |-> QuantizeAll(Slice(b[r], at - overlap, at + seq_len))]
    IN  [x |-> x, y |-> [r \in 1..Len(b) |-> Slice(x[r], overlap, overlap + seq_len)]]

DataArgs ==
    [num_files : 1..MaxFiles,
     len : 0..MaxLen,
     num_epochs : 1..MaxEpochs,
     batch_size : 1..MaxBatch,
     seq_len : 1..MaxSeqLen,
     overlap : 0..MaxOverlap,
     drop_remainder : BOOLEAN]

InitData ==
    /\ dpc = "start"
    /\ dargs \in DataArgs
    /\ taken = 0
    /\ raw = <<>>
    /\ batch = <<>>
    /\ wi = 0
    /\ windows = <<>>
    /\ yielded = <<>>
    /\ GenIdle /\ InterpIdle /\ SplitIdle

\* get_subseq asks for the next batch: at the start, or when range(overlap,
\* num_samps, seq_len) is used up (dataset.py 43-45)
WantsBatch == dpc = "start" \/ (dpc = "window" /\ wi >= Len(batch[1]))

Remaining == StreamLen(dargs) - taken

\* a full batch is delivered and padded
NextBatch ==
    /\ WantsBatch
    /\ Remaining >= dargs.batch_size
    /\ LET b == [r \in 1..dargs.batch_size |-> StreamElement(dargs, taken + r - 1)]
       IN  /\ ~PadBatchFails(b, dargs.batch_size)
           /\ raw' = b
           /\ batch' = PadBatch(b, dargs.batch_size, dargs.seq_len, dargs.overlap)
    /\ taken' = taken + dargs.batch_size
    /\ wi' = dargs.overlap
    /\ windows' = <<>>
    /\ dpc' = "window"
    /\ UNCHANGED dargs
    /\ UNCHANGED notDataVars

\* the under-full last batch is delivered (drop_remainder false) and tf.concat
\* in pad_batch raises on the unequal row counts
LastBatch ==
    /\ WantsBatch
    /\ 0 < Remaining /\ Remaining < dargs.batch_size
    /\ ~dargs.drop_remainder
    /\ LET b == [r \in 1..Remaining |-> StreamElement(dargs, taken + r - 1)]
       IN  /\ PadBatchFails(b, dargs.batch_size)
           /\ raw' = b
    /\ batch' = <<>>
    /\ taken' = StreamLen(dargs)
    /\ wi' = 0
    /\ windows' = <<>>
    /\ dpc' = "padfail"
    /\ UNCHANGED dargs
    /\ UNCHANGED notDataVars

\* the stream is used up, or its under-full last batch is dropped
EndOfData ==
    /\ WantsBatch
    /\ Remaining = 0 \/ (Remaining < dargs.batch_size /\ dargs.drop_remainder)
    /\ dpc' = "end"
    /\ UNCHANGED <<dargs, taken, raw, batch, wi, windows>>
    /\ UNCHANGED notDataVars

\* one iteration of the loop at dataset.py 45-48
YieldSubseq ==
    /\ dpc = "window"
    /\ wi < Len(batch[1])
    /\ windows' = Append(windows, SubseqAt(batch, wi, dargs.seq_len, dargs.overlap))
    /\ wi' = wi + dargs.seq_len
    /\ UNCHANGED <<dpc, dargs, taken, raw, batch>>
    /\ UNCHANGED notDataVars

NextData == NextBatch \/ LastBatch \/ EndOfData \/ YieldSubseq

SpecData == InitData /\ [][NextData]_vars

-----------------------------------------------------------------------------
(* C5, C10: padding and windowing.                                           *)

\* sample p (from 1) of row r of the padded batch, as the claim describes it
PaddedSample(r, p) == IF p <= dargs.overlap THEN R(0) ELSE raw[r][p - dargs.overlap]

\* C5: a batch of raw length L gives exactly floor(L / seq_len) windows;
\* window k (from 0) has x = the quantized padded samples [k * seq_len,
\* k * seq_len + seq_len + overlap), so x has seq_len + overlap elements and
\* y is its last seq_len; consecutive windows advance by seq_len, the last
\* overlap elements of one x are the first overlap elements of the next, the
\* first window starts with quantized zero padding, and no shorter window is
\* emitted.
C5_Windows ==
    dpc = "window" =>
      LET sl == dargs.seq_len
          ov == dargs.overlap
          m == dargs.len \div sl
          n == Len(windows)
      IN  /\ n <= m
          /\ wi = ov + n * sl
          /\ wi >= Len(batch[1]) => n = m
          /\ \A k \in 0..(n - 1) :
               /\ Len(windows[k + 1].x) = Len(raw)
               /\ Len(windows[k + 1].y) = Len(raw)
               /\ \A r \in 1..Len(raw) :
                    LET x == windows[k + 1].x[r]
                        y == windows[k + 1].y[r]
                    IN  /\ Len(x) = sl + ov
                        /\ \A q \in 1..(sl + ov) :
                             x[q] = Quantize(PaddedSample(r, k * sl + q))
                        /\ Len(y) = sl
                        /\ y = SubSeq(x, ov + 1, ov + sl)
                        /\ k = 0 => \A q \in 1..ov : x[q] = Quantize(R(0))
                        /\ k + 1 < n =>
                             SubSeq(x, sl + 1, sl + ov)
                               = SubSeq(windows[k + 2].x[r], 1, ov)

\* C5 witness: a batch whose length is no multiple of seq_len has been
\* windowed to the end, with an overlap and two windows or more.
C5_Witness ==
    /\ dpc = "window"
    /\ wi >= Len(batch[1])
    /\ Len(windows) >= 2
    /\ dargs.overlap >= 1
    /\ dargs.len % dargs.seq_len # 0
    /\ dargs.batch_size >= 2

IsPadded(b) ==
    /\ Len(b) = Len(raw)
    /\ \A r \in 1..Len(raw) :
         /\ Len(b[r]) = dargs.overlap + (dargs.len \div dargs.seq_len) * dargs.seq_len
         /\ \A p \in 1..Len(b[r]) : b[r][p] = PaddedSample(r, p)

\* C10 (as stated): pad_batch succeeds on every batch the batching stage
\* delivers, the under-full last one included, and returns as many sequences
\* as the batch has buffers, each overlap zeros followed by the first
\* floor(L / seq_len) * seq_len samples of its buffer.
C10_EveryBatchPadded ==
    dpc \in {"window", "padfail"} => (dpc # "padfail" /\ IsPadded(batch))

\* C10, the part the code keeps: the same for full batches.
C10_FullBatchPadded == dpc = "window" => IsPadded(batch)

=============================================================================
